---- MODULE Spec2Model ----
(***************************************************************************)
(* Base16384: a binary-to-text codec packing 7 bytes into 4 symbols of 14  *)
(* bits each, in a 16-bit-symbol form (src/src/lib.rs) and in a UTF-8      *)
(* triplet form (src/src/utf8.rs).  The codec is a collection of pure      *)
(* functions; each is an operator below, and the state machine applies     *)
(* them to inputs drawn from bounded sets.                                 *)
(*                                                                         *)
(* Conventions: a slice or Vec is a sequence (1-indexed here, 0-indexed in *)
(* the source); Option<T> is a sequence of length 0 (None) or 1 (Some); a  *)
(* call's outcome is a record [kind, val, index] whose kind is "Ok",       *)
(* "InvalidLength", "InvalidCharacter" or "Panic".                         *)
(***************************************************************************)
EXTENDS Integers, Sequences, FiniteSets, TLC

VARIABLES
    data,      \* the byte buffer handed to encode / encode_to_slice
    stream,    \* the 16-bit symbol stream handed to decode / decode_to_slice
    text,      \* the bytes of the &str handed to Base16384Utf8::decode
    buf,       \* the caller's buffer after the last *_to_slice call
    op,        \* the last API call made
    ret        \* its outcome

vars == <<data, stream, text, buf, op, ret>>

----------------------------------------------------------------------------
(* Bounds of the model *)

\* longest byte buffer encoded
MaxLen == 8
\* longest arbitrary symbol stream decoded
MaxSyms == 6
\* longest arbitrary UTF-8 input decoded, in 3-byte units
MaxUnits == 6
\* caller buffers are tried with capacity required - Slack .. required + Slack
Slack == 1

----------------------------------------------------------------------------
(* Machine integers *)

\* x as u8 / x as u16: truncation
U8(x) == x % 256
U16(x) == x % 65536

\* usize arithmetic wraps modulo 2^w in builds without overflow checks; the
\* model takes a 16-bit usize (the narrowest Rust supports)
UsizeModulus == 65536
IsizeMax == (UsizeModulus \div 2) - 1

\* x << n on a u16
Shl(x, n) == U16(x * (2 ^ n))

\* x >> n
Shr(x, n) == x \div (2 ^ n)

RECURSIVE BitAnd(_, _)
\* x & y
BitAnd(x, y) ==
    IF x = 0 \/ y = 0 THEN 0
    ELSE (x % 2) * (y % 2) + 2 * BitAnd(x \div 2, y \div 2)

RECURSIVE BitOr(_, _)
\* x | y
BitOr(x, y) ==
    IF x = 0 THEN y
    ELSE IF y = 0 THEN x
    ELSE (IF x % 2 = 1 \/ y % 2 = 1 THEN 1 ELSE 0) + 2 * BitOr(x \div 2, y \div 2)

\* Option<T>
None == << >>
Some(x) == << x >>

\* outcomes of a call
Ok(v) == [kind |-> "Ok", val |-> v, index |-> 0]
InvalidLength == [kind |-> "InvalidLength", val |-> << >>, index |-> 0]
InvalidCharacter(i) == [kind |-> "InvalidCharacter", val |-> << >>, index |-> i]
Panic == [kind |-> "Panic", val |-> << >>, index |-> 0]

\* [x; n]
Repeat(x, n) == [k \in 1..n |-> x]

\* `let x = e;` followed by F(x): e is evaluated once
Bind(e, F(_)) == CHOOSE r \in {F(x) : x \in {e}} : TRUE

\* a cursor over a caller buffer: the buffer, the write position (0-based) and
\* whether an index went out of bounds (a panic)
Cursor(b) == [b |-> b, i |-> 0, panic |-> FALSE]

\* buf[i..i + src.len()].copy_from_slice(src); i += src.len();
\* the range index panics when it ends past the buffer
CopyFromSlice(st, src) ==
    IF st.panic \/ st.i + Len(src) > Len(st.b)
      THEN [st EXCEPT !.panic = TRUE]
      ELSE [b |-> [k \in 1..Len(st.b) |->
                     IF k > st.i /\ k <= st.i + Len(src) THEN src[k - st.i] ELSE st.b[k]],
            i |-> st.i + Len(src),
            panic |-> FALSE]

----------------------------------------------------------------------------
(* utils.rs *)

slice_as_chunks(arr, N) ==
    LET len == Len(arr) \div N
    IN  [chunks |-> [k \in 1..len |-> SubSeq(arr, (k - 1) * N + 1, k * N)],
         remainder |-> SubSeq(arr, len * N + 1, Len(arr))]

slice_as_chunks_exact(arr, N) ==
    LET len == Len(arr) \div N
    IN  [k \in 1..len |-> SubSeq(arr, (k - 1) * N + 1, k * N)]

----------------------------------------------------------------------------
(* lib.rs: Base16384 *)

START == 19968            \* 0x4E00
PADDING_OFFSET == 15616   \* 0x3D00

encode_len(data_len) ==
    LET n == (data_len \div 7) * 4
        r == data_len % 7
    IN  CASE r = 0 -> n
          [] r = 1 -> n + 2
          [] r \in {2, 3} -> n + 3
          [] r \in {4, 5} -> n + 4
          [] r = 6 -> n + 5

\* mutant: the second symbol takes chunk[3] >> 2 for its low bits
encode_chunk_bad(chunk) ==
    LET b0_hi == chunk[1]
        b0_lo == chunk[2]
        b1_hi == BitAnd(chunk[2], 3)
        b1_md == chunk[3]
        b1_lo == chunk[4]
        b2_hi == BitAnd(chunk[4], 15)
        b2_md == chunk[5]
        b2_lo == chunk[6]
        b3_hi == BitAnd(chunk[6], 63)
        b3_lo == chunk[7]
    IN  << START + BitOr(Shl(b0_hi, 6), Shr(b0_lo, 2)),
           START + BitOr(BitOr(Shl(b1_hi, 12), Shl(b1_md, 4)), Shr(b1_lo, 2)),
           START + BitOr(BitOr(Shl(b2_hi, 10), Shl(b2_md, 2)), Shr(b2_lo, 6)),
           START + BitOr(Shl(b3_hi, 8), b3_lo) >>

\* chunk: 7 bytes; the 4 symbols written to buf
encode_chunk(chunk) ==
    LET b0_hi == chunk[1]
        b0_lo == chunk[2]
        b1_hi == BitAnd(chunk[2], 3)
        b1_md == chunk[3]
        b1_lo == chunk[4]
        b2_hi == BitAnd(chunk[4], 15)
        b2_md == chunk[5]
        b2_lo == chunk[6]
        b3_hi == BitAnd(chunk[6], 63)
        b3_lo == chunk[7]
    IN  << START + BitOr(Shl(b0_hi, 6), Shr(b0_lo, 2)),
           START + BitOr(BitOr(Shl(b1_hi, 12), Shl(b1_md, 4)), Shr(b1_lo, 4)),
           START + BitOr(BitOr(Shl(b2_hi, 10), Shl(b2_md, 2)), Shr(b2_lo, 6)),
           START + BitOr(Shl(b3_hi, 8), b3_lo) >>

\* mutant: keeps ceil(r / 2) symbols
encode_remainder_bad(remainder) ==
    LET chunk == [k \in 1..7 |-> IF k <= Len(remainder) THEN remainder[k] ELSE 0]
    IN  SubSeq(encode_chunk(chunk), 1, (Len(remainder) + 1) \div 2)
\* Base16384::encode_remainder: the kept prefix of buf
encode_remainder(remainder) ==
    LET chunk == [k \in 1..7 |-> IF k <= Len(remainder) THEN remainder[k] ELSE 0]
    IN  SubSeq(encode_chunk(chunk), 1, Len(remainder) \div 2 + 1)

RECURSIVE encode_chunks(_, _)
\* the loop `for chunk in chunks` of encode: the symbols of chunks k..
encode_chunks(chunks, k) ==
    IF k > Len(chunks) THEN << >>
    ELSE encode_chunk(chunks[k]) \o encode_chunks(chunks, k + 1)

\* mutant: the marker does not record the remainder length
encode_bad(d) ==
    LET s == slice_as_chunks(d, 7)
    IN  encode_chunks(s.chunks, 1)
          \o (IF s.remainder # << >>
                THEN encode_remainder(s.remainder) \o << PADDING_OFFSET >>
                ELSE << >>)
\* Base16384::encode
encode(d) ==
    LET s == slice_as_chunks(d, 7)
    IN  encode_chunks(s.chunks, 1)
          \o (IF s.remainder # << >>
                THEN encode_remainder(s.remainder)
                       \o << BitOr(PADDING_OFFSET, Len(s.remainder)) >>
                ELSE << >>)

RECURSIVE encode_to_slice_loop(_, _, _)
\* the loop `for chunk in chunks` of encode_to_slice, from chunk k on
encode_to_slice_loop(chunks, k, st) ==
    IF k > Len(chunks) THEN st
    ELSE encode_to_slice_loop(chunks, k + 1, CopyFromSlice(st, encode_chunk(chunks[k])))

\* mutant: the capacity assertion is off by one
encode_to_slice_late(d, b) ==
    IF ~(Len(b) + 1 >= encode_len(Len(d))) THEN [kind |-> "Panic", val |-> << >>, buf |-> b]
    ELSE Bind(slice_as_chunks(d, 7), LAMBDA s :
         Bind(encode_to_slice_loop(s.chunks, 1, Cursor(b)), LAMBDA st1 :
         Bind(IF s.remainder # << >>
                THEN CopyFromSlice(CopyFromSlice(st1, encode_remainder(s.remainder)),
                                   << BitOr(PADDING_OFFSET, Len(s.remainder)) >>)
                ELSE st1, LAMBDA st2 :
           IF st2.panic THEN [kind |-> "Panic", val |-> << >>, buf |-> st2.b]
           ELSE [kind |-> "Ok", val |-> SubSeq(st2.b, 1, st2.i), buf |-> st2.b])))

\* mutant: the cursor is not advanced past the marker
encode_to_slice_bad(d, b) ==
    IF ~(Len(b) >= encode_len(Len(d))) THEN [kind |-> "Panic", val |-> << >>, buf |-> b]
    ELSE Bind(slice_as_chunks(d, 7), LAMBDA s :
         Bind(encode_to_slice_loop(s.chunks, 1, Cursor(b)), LAMBDA st1 :
         Bind(IF s.remainder # << >>
                THEN [CopyFromSlice(CopyFromSlice(st1, encode_remainder(s.remainder)),
                                    << BitOr(PADDING_OFFSET, Len(s.remainder)) >>)
                        EXCEPT !.i = @ - 1]
                ELSE st1, LAMBDA st2 :
           IF st2.panic THEN [kind |-> "Panic", val |-> << >>, buf |-> st2.b]
           ELSE [kind |-> "Ok", val |-> SubSeq(st2.b, 1, st2.i), buf |-> st2.b])))

\* outcome of encode_to_slice(d, b): [kind, val (the returned slice), buf]
encode_to_slice(d, b) ==
    IF ~(Len(b) >= encode_len(Len(d))) THEN [kind |-> "Panic", val |-> << >>, buf |-> b]
    ELSE Bind(slice_as_chunks(d, 7), LAMBDA s :
         Bind(encode_to_slice_loop(s.chunks, 1, Cursor(b)), LAMBDA st1 :
         Bind(IF s.remainder # << >>
                THEN CopyFromSlice(CopyFromSlice(st1, encode_remainder(s.remainder)),
                                   << BitOr(PADDING_OFFSET, Len(s.remainder)) >>)
                ELSE st1, LAMBDA st2 :
           IF st2.panic THEN [kind |-> "Panic", val |-> << >>, buf |-> st2.b]
           ELSE [kind |-> "Ok", val |-> SubSeq(st2.b, 1, st2.i), buf |-> st2.b])))

\* mutant: the tail of a 3-byte remainder is taken to be 4 symbols
decode_len_bad(data_len, padding, checks) ==
    IF padding = None
      THEN [panic |-> FALSE, val |-> ((data_len \div 4) * 7) % UsizeModulus]
      ELSE LET offset == (padding[1] - PADDING_OFFSET) % 65536
               tail == CASE offset = 0 -> 1
                         [] offset = 1 -> 2
                         [] offset = 2 -> 3
                         [] offset \in {3, 4, 5} -> 4
                         [] offset = 6 -> 5
               left == data_len - tail
           IN  IF ~(offset \in 0..6) \/ left < 0 THEN [panic |-> TRUE, val |-> 0]
               ELSE [panic |-> FALSE, val |-> ((left \div 4) * 7 + offset) % UsizeModulus]

\* outcome of decode_len: [panic, val].  `checks` tells whether the build
\* checks integer overflow (then an overflowing operation panics; otherwise
\* it wraps)
decode_len(data_len, padding, checks) ==
    IF padding = None
      THEN LET prod == (data_len \div 4) * 7
           IN  IF prod >= UsizeModulus /\ checks THEN [panic |-> TRUE, val |-> 0]
               ELSE [panic |-> FALSE, val |-> prod % UsizeModulus]
      ELSE LET diff == padding[1] - PADDING_OFFSET
               offset == diff % 65536
               tail == CASE offset = 0 -> 1
                         [] offset = 1 -> 2
                         [] offset \in {2, 3} -> 3
                         [] offset \in {4, 5} -> 4
                         [] offset = 6 -> 5
               left == data_len - tail
               prod == ((left % UsizeModulus) \div 4) * 7
               sum == (prod % UsizeModulus) + offset
           IN  IF diff < 0 /\ checks THEN [panic |-> TRUE, val |-> 0]
               ELSE IF ~(offset \in 0..6) THEN [panic |-> TRUE, val |-> 0]
               ELSE IF left < 0 /\ checks THEN [panic |-> TRUE, val |-> 0]
               ELSE IF (prod >= UsizeModulus \/ sum >= UsizeModulus) /\ checks
                 THEN [panic |-> TRUE, val |-> 0]
               ELSE [panic |-> FALSE, val |-> sum % UsizeModulus]

\* Base16384::padding
padding(last) ==
    IF last >= PADDING_OFFSET /\ last < PADDING_OFFSET + 7 THEN Some(last) ELSE None

is_valid_char(c) == c >= START /\ c < START + 16383

\* mutant: the last invalid symbol's index (rposition)
position_invalid_bad(chunk) ==
    LET bad == {k \in 1..Len(chunk) : ~is_valid_char(chunk[k])}
    IN  IF bad = {} THEN None
        ELSE Some((CHOOSE k \in bad : \A j \in bad : k >= j) - 1)

\* chunk.iter().position(|&c| !is_valid_char(c)): None or Some(0-based index)
position_invalid(chunk) ==
    LET bad == {k \in 1..Len(chunk) : ~is_valid_char(chunk[k])}
    IN  IF bad = {} THEN None
        ELSE Some((CHOOSE k \in bad : \A j \in bad : k <= j) - 1)

\* chunk: 4 symbols; Ok(the 7 bytes written to buf) or InvalidCharacter
decode_chunk(chunk) ==
    Bind(position_invalid(chunk), LAMBDA pos :
      IF pos # None THEN InvalidCharacter(pos[1])
      ELSE LET b0 == chunk[1] - START
               b1 == chunk[2] - START
               b2 == chunk[3] - START
               b3 == chunk[4] - START
           IN  Ok(<< U8(Shr(b0, 6)),
                     U8(BitOr(Shl(BitAnd(b0, 63), 2), Shr(b1, 12))),
                     U8(Shr(b1, 4)),
                     U8(BitOr(Shl(BitAnd(b1, 15), 4), Shr(b2, 10))),
                     U8(Shr(b2, 2)),
                     U8(BitOr(Shl(BitAnd(b2, 3), 6), Shr(b3, 8))),
                     U8(b3) >>))

\* mutant: one byte more than the marker tells is returned
decode_remainder_bad(remainder, pad) ==
    Bind(decode_chunk([k \in 1..4 |-> IF k <= Len(remainder) THEN remainder[k] ELSE START]),
         LAMBDA r :
           IF r.kind # "Ok" THEN r
           ELSE Ok(SubSeq(r.val, 1, pad - PADDING_OFFSET + 1)))

\* remainder: the tail's data symbols; pad: the padding marker
decode_remainder(remainder, pad) ==
    Bind(decode_chunk([k \in 1..4 |-> IF k <= Len(remainder) THEN remainder[k] ELSE START]),
         LAMBDA r :
           IF r.kind # "Ok" THEN r
           ELSE Ok(SubSeq(r.val, 1, pad - PADDING_OFFSET)))

\* data.split_at(data.len() - tail) and &remainder[..remainder.len() - 1] of
\* decode and decode_to_slice: [panic, data, remainder]
split_tail(d, pad, checks) ==
    IF pad = None THEN [panic |-> FALSE, data |-> d, remainder |-> << >>]
    ELSE LET off == pad[1] - PADDING_OFFSET
             tail == CASE off = 0 -> 1
                       [] off = 1 -> 2
                       [] off \in {2, 3} -> 3
                       [] off \in {4, 5} -> 4
                       [] off = 6 -> 5
             mid == Len(d) - tail
         IN  \* the subtraction overflows (a panic under overflow checks), or wraps
             \* to a mid > len, on which split_at panics
             IF mid < 0 THEN [panic |-> TRUE, data |-> << >>, remainder |-> << >>]
             ELSE [panic |-> FALSE,
                   data |-> SubSeq(d, 1, mid),
                   remainder |-> SubSeq(d, mid + 1, Len(d) - 1)]

RECURSIVE decode_loop(_, _, _)
\* the loop `for chunk in chunks` of decode, from chunk k on, `?` included:
\* Ok(bytes so far) or the first error
decode_loop(chunks, k, acc) ==
    IF k > Len(chunks) THEN Ok(acc)
    ELSE Bind(decode_chunk(chunks[k]), LAMBDA r :
           IF r.kind # "Ok" THEN r
           ELSE decode_loop(chunks, k + 1, acc \o r.val))

\* mutant: the length check is missing
decode_bad(d, checks) ==
    Bind(IF d = << >> THEN None ELSE padding(d[Len(d)]), LAMBDA pad :
    Bind(decode_len(Len(d), pad, checks), LAMBDA capacity :
      IF capacity.panic THEN Panic
      ELSE IF capacity.val > IsizeMax THEN Panic
      ELSE Bind(split_tail(d, pad, checks), LAMBDA sp :
        IF sp.panic THEN Panic
        ELSE Bind(decode_loop(slice_as_chunks_exact(sp.data, 4), 1, << >>), LAMBDA body :
          IF body.kind # "Ok" THEN body
          ELSE IF pad = None THEN body
          ELSE Bind(decode_remainder(sp.remainder, pad[1]), LAMBDA rem :
            IF rem.kind # "Ok" THEN rem
            ELSE Ok(body.val \o rem.val))))))

\* Base16384::decode
decode(d, checks) ==
    Bind(IF d = << >> THEN None ELSE padding(d[Len(d)]), LAMBDA pad :
    Bind(decode_len(Len(d), pad, checks), LAMBDA capacity :
      IF capacity.panic THEN Panic
      \* Vec::with_capacity panics on a capacity above isize::MAX
      ELSE IF capacity.val > IsizeMax THEN Panic
      ELSE Bind(split_tail(d, pad, checks), LAMBDA sp :
        IF sp.panic THEN Panic
        ELSE IF Len(sp.data) % 4 # 0 THEN InvalidLength
        ELSE Bind(decode_loop(slice_as_chunks_exact(sp.data, 4), 1, << >>), LAMBDA body :
          IF body.kind # "Ok" THEN body
          ELSE IF pad = None THEN body
          ELSE Bind(decode_remainder(sp.remainder, pad[1]), LAMBDA rem :
            IF rem.kind # "Ok" THEN rem
            ELSE Ok(body.val \o rem.val))))))

RECURSIVE decode_to_slice_loop(_, _, _)
\* the loop of decode_to_slice from chunk k on: [st |-> cursor, err |-> None or
\* Some(the error `?` returned)]
decode_to_slice_loop(chunks, k, st) ==
    IF k > Len(chunks) \/ st.panic THEN [st |-> st, err |-> None]
    ELSE Bind(decode_chunk(chunks[k]), LAMBDA r :
           IF r.kind # "Ok" THEN [st |-> st, err |-> Some(r)]
           ELSE decode_to_slice_loop(chunks, k + 1, CopyFromSlice(st, r.val)))

\* outcome of decode_to_slice(d, b): [kind, val, index, buf]
WithBuf(r, b) == [kind |-> r.kind, val |-> r.val, index |-> r.index, buf |-> b]

\* Base16384::decode_to_slice
decode_to_slice(d, b, checks) ==
    Bind(IF d = << >> THEN None ELSE padding(d[Len(d)]), LAMBDA pad :
    Bind(decode_len(Len(d), pad, checks), LAMBDA capacity :
      IF capacity.panic THEN WithBuf(Panic, b)
      ELSE IF ~(Len(b) >= capacity.val) THEN WithBuf(Panic, b)
      ELSE Bind(split_tail(d, pad, checks), LAMBDA sp :
        IF sp.panic THEN WithBuf(Panic, b)
        ELSE IF Len(sp.data) % 4 # 0 THEN WithBuf(InvalidLength, b)
        ELSE Bind(decode_to_slice_loop(slice_as_chunks_exact(sp.data, 4), 1, Cursor(b)),
                  LAMBDA body :
          IF body.st.panic THEN WithBuf(Panic, body.st.b)
          ELSE IF body.err # None THEN WithBuf(body.err[1], body.st.b)
          ELSE IF pad = None THEN WithBuf(Ok(SubSeq(body.st.b, 1, body.st.i)), body.st.b)
          ELSE Bind(decode_remainder(sp.remainder, pad[1]), LAMBDA rem :
            IF rem.kind # "Ok" THEN WithBuf(rem, body.st.b)
            ELSE Bind(CopyFromSlice(body.st, rem.val), LAMBDA st2 :
              IF st2.panic THEN WithBuf(Panic, st2.b)
              ELSE WithBuf(Ok(SubSeq(st2.b, 1, st2.i)), st2.b)))))))

----------------------------------------------------------------------------
(* utf8.rs: Base16384Utf8 *)

\* x << n on a u8
Shl8(x, n) == U8(x * (2 ^ n))

utf8_encode_len(data_len) == encode_len(data_len) * 3

START_HI == Shr(START, 6)
START_LO == U8(BitAnd(START, 63))
START_UTF8_HI == BitOr(224, U8(Shr(START_HI, 6)))
START_UTF8_MD == BitOr(128, U8(BitAnd(START_HI, 63)))
START_UTF8_LO == BitOr(128, START_LO)
PADDING_OFFSET_HI == BitOr(224, U8(Shr(PADDING_OFFSET, 12)))
PADDING_OFFSET_MD == BitOr(128, U8(BitAnd(Shr(PADDING_OFFSET, 6), 63)))
PADDING_OFFSET_LO == BitOr(128, U8(BitAnd(PADDING_OFFSET, 63)))

\* mutant: the low 6 bits of the second symbol take chunk[3] >> 2
utf8_encode_chunk_bad(chunk) ==
    LET b0_hi == chunk[1] + START_HI
        b0_lo == Shr(chunk[2], 2)
        b1_hi == BitOr(Shl8(BitAnd(chunk[2], 3), 6), Shr(chunk[3], 2)) + START_HI
        b1_lo == BitOr(Shl8(BitAnd(chunk[3], 3), 4), Shr(chunk[4], 2))
        b2_hi == BitOr(Shl8(BitAnd(chunk[4], 15), 4), Shr(chunk[5], 4)) + START_HI
        b2_lo == BitOr(Shl8(BitAnd(chunk[5], 15), 2), Shr(chunk[6], 6))
        b3_hi == BitOr(Shl8(BitAnd(chunk[6], 63), 2), Shr(chunk[7], 6)) + START_HI
        b3_lo == BitAnd(chunk[7], 63)
    IN  << BitOr(224, U8(Shr(b0_hi, 6))), BitOr(128, U8(BitAnd(b0_hi, 63))), BitOr(128, b0_lo),
           BitOr(224, U8(Shr(b1_hi, 6))), BitOr(128, U8(BitAnd(b1_hi, 63))), BitOr(128, b1_lo),
           BitOr(224, U8(Shr(b2_hi, 6))), BitOr(128, U8(BitAnd(b2_hi, 63))), BitOr(128, b2_lo),
           BitOr(224, U8(Shr(b3_hi, 6))), BitOr(128, U8(BitAnd(b3_hi, 63))), BitOr(128, b3_lo) >>

\* chunk: 7 bytes; the 12 bytes written to buf
utf8_encode_chunk(chunk) ==
    LET b0_hi == chunk[1] + START_HI
        b0_lo == Shr(chunk[2], 2)
        b1_hi == BitOr(Shl8(BitAnd(chunk[2], 3), 6), Shr(chunk[3], 2)) + START_HI
        b1_lo == BitOr(Shl8(BitAnd(chunk[3], 3), 4), Shr(chunk[4], 4))
        b2_hi == BitOr(Shl8(BitAnd(chunk[4], 15), 4), Shr(chunk[5], 4)) + START_HI
        b2_lo == BitOr(Shl8(BitAnd(chunk[5], 15), 2), Shr(chunk[6], 6))
        b3_hi == BitOr(Shl8(BitAnd(chunk[6], 63), 2), Shr(chunk[7], 6)) + START_HI
        b3_lo == BitAnd(chunk[7], 63)
    IN  << BitOr(224, U8(Shr(b0_hi, 6))), BitOr(128, U8(BitAnd(b0_hi, 63))), BitOr(128, b0_lo),
           BitOr(224, U8(Shr(b1_hi, 6))), BitOr(128, U8(BitAnd(b1_hi, 63))), BitOr(128, b1_lo),
           BitOr(224, U8(Shr(b2_hi, 6))), BitOr(128, U8(BitAnd(b2_hi, 63))), BitOr(128, b2_lo),
           BitOr(224, U8(Shr(b3_hi, 6))), BitOr(128, U8(BitAnd(b3_hi, 63))), BitOr(128, b3_lo) >>

utf8_encode_remainder(remainder) ==
    LET chunk == [k \in 1..7 |-> IF k <= Len(remainder) THEN remainder[k] ELSE 0]
    IN  SubSeq(utf8_encode_chunk(chunk), 1, (Len(remainder) \div 2 + 1) * 3)

RECURSIVE utf8_encode_chunks(_, _)
\* the loop `for chunk in chunks` of Base16384Utf8::encode
utf8_encode_chunks(chunks, k) ==
    IF k > Len(chunks) THEN << >>
    ELSE utf8_encode_chunk(chunks[k]) \o utf8_encode_chunks(chunks, k + 1)

\* Base16384Utf8::encode: the bytes of the returned String
utf8_encode(d) ==
    LET s == slice_as_chunks(d, 7)
    IN  utf8_encode_chunks(s.chunks, 1)
          \o (IF s.remainder # << >>
                THEN utf8_encode_remainder(s.remainder)
                       \o << PADDING_OFFSET_HI, PADDING_OFFSET_MD,
                             BitOr(PADDING_OFFSET_LO, U8(Len(s.remainder))) >>
                ELSE << >>)

RECURSIVE utf8_encode_to_slice_loop(_, _, _)
\* the loop `for chunk in chunks` of Base16384Utf8::encode_to_slice
utf8_encode_to_slice_loop(chunks, k, st) ==
    IF k > Len(chunks) THEN st
    ELSE utf8_encode_to_slice_loop(chunks, k + 1,
                                   CopyFromSlice(st, utf8_encode_chunk(chunks[k])))

\* buf[i] = x, with its bounds check (the cursor does not move)
SetAt(st, off, x) ==
    IF st.panic \/ st.i + off >= Len(st.b) THEN [st EXCEPT !.panic = TRUE]
    ELSE [st EXCEPT !.b[st.i + off + 1] = x]

\* outcome of Base16384Utf8::encode_to_slice(d, b): [kind, val, buf]
utf8_encode_to_slice(d, b) ==
    IF ~(Len(b) >= utf8_encode_len(Len(d))) THEN [kind |-> "Panic", val |-> << >>, buf |-> b]
    ELSE Bind(slice_as_chunks(d, 7), LAMBDA s :
         Bind(utf8_encode_to_slice_loop(s.chunks, 1, Cursor(b)), LAMBDA st1 :
         Bind(IF s.remainder # << >>
                THEN Bind(SetAt(SetAt(SetAt(
                            CopyFromSlice(st1, utf8_encode_remainder(s.remainder)),
                            0, PADDING_OFFSET_HI),
                            1, PADDING_OFFSET_MD),
                            2, BitOr(PADDING_OFFSET_LO, U8(Len(s.remainder)))),
                          LAMBDA st3 : IF st3.panic THEN st3 ELSE [st3 EXCEPT !.i = st3.i + 3])
                ELSE st1, LAMBDA st4 :
           IF st4.panic THEN [kind |-> "Panic", val |-> << >>, buf |-> st4.b]
           ELSE [kind |-> "Ok", val |-> SubSeq(st4.b, 1, st4.i), buf |-> st4.b])))

\* Base16384Utf8::decode_len: [panic, val]
utf8_decode_len(data_len, pad, checks) ==
    IF ~(data_len % 3 = 0) THEN [panic |-> TRUE, val |-> 0]
    ELSE decode_len(data_len \div 3, pad, checks)

\* Base16384Utf8::padding, last: 3 bytes
utf8_padding(last) ==
    IF BitAnd(last[1], 240) # 224 \/ BitAnd(last[2], 192) # 128 \/ BitAnd(last[3], 192) # 128
      THEN None
      ELSE LET b0 == BitAnd(last[1], 15)
               b1 == BitAnd(last[2], 63)
               b2 == BitAnd(last[3], 63)
           IN  padding(BitOr(BitOr(Shl(b0, 12), Shl(b1, 6)), b2))

\* Base16384Utf8::valid_char, c: 3 bytes; Option<u16>
valid_char(c) ==
    LET b0 == BitAnd(c[1], 15)
        b1 == BitAnd(c[2], 63)
        b2 == BitAnd(c[3], 63)
        v == BitOr(BitOr(Shl(b0, 12), Shl(b1, 6)), b2)
    IN  IF v >= START /\ v < START + 16383 THEN Some(v) ELSE None

\* Base16384Utf8::decode_chunk, chunk: 12 bytes
utf8_decode_chunk(chunk) ==
    Bind([i \in 1..4 |-> valid_char(SubSeq(chunk, 3 * i - 2, 3 * i))], LAMBDA cs :
      IF \E i \in 1..4 : cs[i] = None
        THEN InvalidCharacter(((CHOOSE i \in 1..4 :
                                  cs[i] = None /\ \A j \in 1..(i - 1) : cs[j] # None) - 1) * 3)
        ELSE LET b0 == cs[1][1] - START
                 b1 == cs[2][1] - START
                 b2 == cs[3][1] - START
                 b3 == cs[4][1] - START
             IN  Ok(<< U8(Shr(b0, 6)),
                       U8(BitOr(Shl(BitAnd(b0, 63), 2), Shr(b1, 12))),
                       U8(Shr(b1, 4)),
                       U8(BitOr(Shl(BitAnd(b1, 15), 4), Shr(b2, 10))),
                       U8(Shr(b2, 2)),
                       U8(BitOr(Shl(BitAnd(b2, 3), 6), Shr(b3, 8))),
                       U8(b3) >>))

\* Base16384Utf8::decode_remainder
utf8_decode_remainder(remainder, padding_size) ==
    LET start == << START_UTF8_HI, START_UTF8_MD, START_UTF8_LO >>
        init == start \o start \o start \o start
    IN  Bind(utf8_decode_chunk([k \in 1..12 |->
                                  IF k <= Len(remainder) THEN remainder[k] ELSE init[k]]),
             LAMBDA r :
               IF r.kind # "Ok" THEN r
               ELSE Ok(SubSeq(r.val, 1, padding_size)))

\* the split of Base16384Utf8::decode and decode_to_slice: [panic, data, remainder]
utf8_split_tail(d, pad, checks) ==
    IF pad = None THEN [panic |-> FALSE, data |-> d, remainder |-> << >>]
    ELSE LET padding_size == pad[1] - PADDING_OFFSET
             last_chunk_size == CASE padding_size = 0 -> 1
                                  [] padding_size = 1 -> 2
                                  [] padding_size \in {2, 3} -> 3
                                  [] padding_size \in {4, 5} -> 4
                                  [] padding_size = 6 -> 5
             mid == Len(d) - last_chunk_size * 3
         IN  \* the subtraction overflows (a panic under overflow checks), or wraps
             \* to a mid > len, on which split_at panics
             IF mid < 0 THEN [panic |-> TRUE, data |-> << >>, remainder |-> << >>]
             ELSE [panic |-> FALSE,
                   data |-> SubSeq(d, 1, mid),
                   remainder |-> SubSeq(d, mid + 1, Len(d) - 3)]

RECURSIVE utf8_decode_loop(_, _, _)
\* the loop `for chunk in chunks` of Base16384Utf8::decode, `?` included
utf8_decode_loop(chunks, k, acc) ==
    IF k > Len(chunks) THEN Ok(acc)
    ELSE Bind(utf8_decode_chunk(chunks[k]), LAMBDA r :
           IF r.kind # "Ok" THEN r
           ELSE utf8_decode_loop(chunks, k + 1, acc \o r.val))

\* Base16384Utf8::decode, d: the bytes of the &str
utf8_decode(d, checks) ==
    IF d = << >> THEN Ok(<< >>)
    ELSE IF Len(d) % 3 # 0 THEN InvalidLength
    ELSE IF Len(d) < 3 THEN InvalidLength
    ELSE Bind(utf8_padding(SubSeq(d, Len(d) - 2, Len(d))), LAMBDA pad :
         Bind(utf8_decode_len(Len(d), pad, checks), LAMBDA capacity :
           IF capacity.panic THEN Panic
           \* Vec::with_capacity panics on a capacity above isize::MAX
           ELSE IF capacity.val > IsizeMax THEN Panic
           ELSE Bind(utf8_split_tail(d, pad, checks), LAMBDA sp :
             IF sp.panic THEN Panic
             ELSE IF Len(sp.data) % 4 # 0 THEN InvalidLength
             ELSE Bind(utf8_decode_loop(slice_as_chunks_exact(sp.data, 12), 1, << >>),
                       LAMBDA body :
               IF body.kind # "Ok" THEN body
               ELSE IF pad = None THEN body
               ELSE Bind(utf8_decode_remainder(sp.remainder, pad[1] - PADDING_OFFSET),
                         LAMBDA rem :
                 IF rem.kind # "Ok" THEN rem
                 ELSE Ok(body.val \o rem.val))))))

RECURSIVE utf8_decode_to_slice_loop(_, _, _)
\* the loop of Base16384Utf8::decode_to_slice: [st, err]
utf8_decode_to_slice_loop(chunks, k, st) ==
    IF k > Len(chunks) \/ st.panic THEN [st |-> st, err |-> None]
    ELSE Bind(utf8_decode_chunk(chunks[k]), LAMBDA r :
           IF r.kind # "Ok" THEN [st |-> st, err |-> Some(r)]
           ELSE utf8_decode_to_slice_loop(chunks, k + 1, CopyFromSlice(st, r.val)))

\* Base16384Utf8::decode_to_slice: [kind, val, index, buf]
utf8_decode_to_slice(d, b, checks) ==
    IF d = << >> THEN WithBuf(Ok(<< >>), b)
    ELSE IF Len(d) % 3 # 0 THEN WithBuf(InvalidLength, b)
    ELSE IF Len(d) < 3 THEN WithBuf(InvalidLength, b)
    ELSE Bind(utf8_padding(SubSeq(d, Len(d) - 2, Len(d))), LAMBDA pad :
         Bind(utf8_decode_len(Len(d), pad, checks), LAMBDA capacity :
           IF capacity.panic THEN WithBuf(Panic, b)
           ELSE IF ~(Len(b) >= capacity.val) THEN WithBuf(Panic, b)
           ELSE Bind(utf8_split_tail(d, pad, checks), LAMBDA sp :
             IF sp.panic THEN WithBuf(Panic, b)
             ELSE IF Len(sp.data) % 4 # 0 THEN WithBuf(InvalidLength, b)
             ELSE Bind(utf8_decode_to_slice_loop(slice_as_chunks_exact(sp.data, 12), 1,
                                                 Cursor(b)), LAMBDA body :
               IF body.st.panic THEN WithBuf(Panic, body.st.b)
               ELSE IF body.err # None THEN WithBuf(body.err[1], body.st.b)
               ELSE IF pad = None
                 THEN WithBuf(Ok(SubSeq(body.st.b, 1, body.st.i)), body.st.b)
               ELSE Bind(utf8_decode_remainder(sp.remainder, pad[1] - PADDING_OFFSET),
                         LAMBDA rem :
                 IF rem.kind # "Ok" THEN WithBuf(rem, body.st.b)
                 ELSE Bind(CopyFromSlice(body.st, rem.val), LAMBDA st2 :
                   IF st2.panic THEN WithBuf(Panic, st2.b)
                   ELSE WithBuf(Ok(SubSeq(st2.b, 1, st2.i)), st2.b)))))))

----------------------------------------------------------------------------
(* Inputs *)

\* byte values: all zeros, a mixed pattern (0xA5), all ones
ByteVals == {0, 165, 255}

RECURSIVE SeqsUpTo(_, _)
\* the sequences over S of length at most n
SeqsUpTo(S, n) ==
    IF n = 0 THEN {<< >>}
    ELSE LET shorter == SeqsUpTo(S, n - 1)
         IN  shorter \cup {Append(s, x) : s \in {t \in shorter : Len(t) = n - 1}, x \in S}

ByteBufs == SeqsUpTo(ByteVals, MaxLen)

\* symbols: the first data symbol, the values just outside the data range on
\* either side (0x4DFF, 0x8DFF), the padding markers for r = 0 and r = 1
SymVals == {START, START - 1, START + 16383, PADDING_OFFSET, PADDING_OFFSET + 1}

Streams == SeqsUpTo(SymVals, MaxSyms)

\* 3-byte units of well-formed UTF-8: U+4E00, U+4DFF (just below START), the
\* padding marker U+3D01, and the three ASCII characters "T8@"
TextUnits == { <<228, 184, 128>>, <<228, 183, 191>>, <<227, 180, 129>>, <<84, 56, 64>> }

RECURSIVE Flatten(_)
Flatten(ss) == IF ss = << >> THEN << >> ELSE Head(ss) \o Flatten(Tail(ss))

\* strings of at most MaxUnits units, followed by up to two ASCII bytes
Texts == { Flatten(us) \o extra : us \in SeqsUpTo(TextUnits, MaxUnits),
                                   extra \in {<< >>, <<65>>, <<65, 65>>} }

\* capacities tried for a buffer that must hold `required` elements
BufLens(required) == {n \in (required - Slack)..(required + Slack) : n >= 0}

\* the caller's buffer of a decode_to_slice call: n bytes 0xAA, a value no
\* input of the model decodes to
FreshBuf(n) == Repeat(170, n)

\* the capacity a decode_to_slice call requires, 0 where it is not defined
Required(cap) == IF cap.panic \/ cap.val > IsizeMax THEN 0 ELSE cap.val

----------------------------------------------------------------------------
(* The state machine: one API call per step.  op says what the state holds:  *)
(* an input not yet used ("bytes", "symbols", "text") or the last call made. *)

InitCommon ==
    /\ buf = << >>
    /\ ret = Ok(<< >>)

\* a byte buffer to encode
Init ==
    /\ data \in ByteBufs
    /\ stream = << >>
    /\ text = << >>
    /\ op = "bytes"
    /\ InitCommon

\* an arbitrary symbol stream to decode
InitDecode ==
    /\ data = << >>
    /\ stream \in Streams
    /\ text = << >>
    /\ op = "symbols"
    /\ InitCommon

\* an arbitrary well-formed UTF-8 string to decode
InitUtf8 ==
    /\ data = << >>
    /\ stream = << >>
    /\ text \in Texts
    /\ op = "text"
    /\ InitCommon

Encode ==
    /\ op = "bytes"
    /\ op' = "encode"
    /\ \E r \in {encode(data)} :
         /\ ret' = Ok(r)
         /\ stream' = r
    /\ UNCHANGED <<data, text, buf>>

EncodeToSlice ==
    /\ op = "bytes"
    /\ \E n \in BufLens(encode_len(Len(data))) :
         \E r \in {encode_to_slice(data, Repeat(0, n))} :
             /\ op' = "encode_to_slice"
             /\ ret' = [kind |-> r.kind, val |-> r.val, index |-> 0]
             /\ buf' = r.buf
             /\ stream' = r.val
    /\ UNCHANGED <<data, text>>

\* the stream is an input, or what encode returned
HasStream == op \in {"symbols", "encode"}

Decode ==
    /\ HasStream
    /\ \E checks \in BOOLEAN :
         /\ op' = "decode"
         /\ ret' = decode(stream, checks)
    /\ buf' = << >>
    /\ UNCHANGED <<data, stream, text>>

DecodeToSlice ==
    /\ op = "symbols"
    /\ \E checks \in BOOLEAN :
         \E n \in BufLens(Required(decode_len(Len(stream),
                            IF stream = << >> THEN None ELSE padding(stream[Len(stream)]),
                            checks))) :
           \E r \in {decode_to_slice(stream, FreshBuf(n), checks)} :
               /\ op' = "decode_to_slice"
               /\ ret' = [kind |-> r.kind, val |-> r.val, index |-> r.index]
               /\ buf' = r.buf
    /\ UNCHANGED <<data, stream, text>>

Utf8Encode ==
    /\ op = "bytes"
    /\ op' = "utf8_encode"
    /\ \E r \in {utf8_encode(data)} :
         /\ ret' = Ok(r)
         /\ text' = r
    /\ UNCHANGED <<data, stream, buf>>

\* the caller's buffers of n bytes of a Base16384Utf8::encode_to_slice call:
\* "A" repeated (as in the documentation's example) and, for an even n, the
\* two-byte character U+00E9 (C3 A9) repeated
StrBufs(n) ==
    {Repeat(65, n)}
      \cup (IF n % 2 = 0 THEN {[k \in 1..n |-> IF k % 2 = 1 THEN 195 ELSE 169]} ELSE {})

Utf8EncodeToSlice ==
    /\ op = "bytes"
    /\ \E n \in BufLens(utf8_encode_len(Len(data))) :
         \E b \in StrBufs(n) : \E r \in {utf8_encode_to_slice(data, b)} :
             /\ op' = "utf8_encode_to_slice"
             /\ ret' = [kind |-> r.kind, val |-> r.val, index |-> 0]
             /\ buf' = r.buf
             /\ text' = r.val
    /\ UNCHANGED <<data, stream>>

\* the text is an input, or what Base16384Utf8::encode returned
HasText == op \in {"text", "utf8_encode"}

Utf8Decode ==
    /\ HasText
    /\ \E checks \in BOOLEAN :
         /\ op' = "utf8_decode"
         /\ ret' = utf8_decode(text, checks)
    /\ buf' = << >>
    /\ UNCHANGED <<data, stream, text>>

\* the capacity Base16384Utf8::decode_to_slice requires of its buffer for t
Utf8Required(t, checks) ==
    IF Len(t) < 3 \/ Len(t) % 3 # 0 THEN 0
    ELSE Required(utf8_decode_len(Len(t), utf8_padding(SubSeq(t, Len(t) - 2, Len(t))), checks))

Utf8DecodeToSlice ==
    /\ op = "text"
    /\ \E checks \in BOOLEAN :
         \E n \in BufLens(Utf8Required(text, checks)) :
           \E r \in {utf8_decode_to_slice(text, FreshBuf(n), checks)} :
               /\ op' = "utf8_decode_to_slice"
               /\ ret' = [kind |-> r.kind, val |-> r.val, index |-> r.index]
               /\ buf' = r.buf
    /\ UNCHANGED <<data, stream, text>>

\* encode a byte buffer, then decode what came out
Next ==
    \/ Encode
    \/ EncodeToSlice
    \/ Decode
    \/ Utf8Encode
    \/ Utf8EncodeToSlice
    \/ Utf8Decode

Spec == Init /\ [][Next]_vars

\* decode an arbitrary symbol stream
NextDecode ==
    \/ Decode
    \/ DecodeToSlice

SpecDecode == InitDecode /\ [][NextDecode]_vars

\* decode an arbitrary UTF-8 string
NextUtf8 ==
    \/ Utf8Decode
    \/ Utf8DecodeToSlice

SpecUtf8 == InitUtf8 /\ [][NextUtf8]_vars

----------------------------------------------------------------------------
(* tests/zeros.rs *)

\* zeros_32: 32 zero bytes encoded into a buffer of encode_len(32) symbols
zeros_32 == encode_to_slice(Repeat(0, 32), Repeat(0, encode_len(32)))

----------------------------------------------------------------------------
(* tests/magic.rs and the documentation's example *)

\* MAGIC.encode_utf16(): the 148 code units of the test's string
MAGIC ==
    <<
       19968, 24096, 23056, 21254, 20418, 20112, 30252, 23053, 20867, 32513, 21064, 24852,
       21317, 28529, 28260, 26651, 21767, 24545, 35456, 28450, 22217, 20562, 26268, 30249,
       22666, 32962, 33464, 32048, 23116, 28979, 24276, 33847, 23566, 24995, 31472, 35646,
       24016, 21012, 22285, 21061, 24465, 33412, 29481, 22860, 24915, 29429, 20293, 24659,
       25365, 25445, 27489, 26458, 25815, 21461, 34685, 28257, 26264, 33862, 25497, 30056,
       26714, 29878, 32693, 31855, 27164, 25895, 23505, 33654, 27614, 21911, 30701, 35453,
       28063, 34312, 21514, 20868, 28513, 30328, 28710, 22667, 28963, 26344, 35906, 24466,
       29413, 22361, 26718, 26265, 29862, 34761, 33914, 28064, 30312, 30778, 24726, 29863,
       30762, 26794, 31922, 31662, 31212, 22811, 22734, 33461, 31661, 35211, 29930, 35260,
       32111, 31228, 20743, 20675, 32561, 27244, 27939, 22474, 33011, 23260, 35135, 24273,
       33460, 35661, 25947, 26072, 33910, 31677, 33143, 27871, 34360, 27694, 23955, 29670,
       34810, 23710, 31151, 31469, 35259, 36111, 21963, 33268, 35709, 32127, 29159, 35067,
       36159, 28143, 35328, 15620
    >>

\* magic_1: what the loop of Base16384::decode(&data) gets from decode_chunk
\* for each of the 36 groups of 4 symbols
magic_1_chunks == [k \in 1..36 |-> decode_chunk(SubSeq(MAGIC, 4 * k - 3, 4 * k))]

\* magic_1: what Base16384::decode(&data) gets from decode_remainder for the
\* tail of 3 symbols and the marker
magic_1_remainder == decode_remainder(SubSeq(MAGIC, 145, 147), MAGIC[148])

\* Base16384::encode(b"12345678") of the documentation
encode_12345678 == encode(<<49, 50, 51, 52, 53, 54, 55, 56>>)

----------------------------------------------------------------------------
(* Properties *)

\* C1: decoding what encode returned gives back Ok(the bytes encoded), for the
\* 16-bit form and for the UTF-8 form.
C1_RoundTrip ==
    /\ op = "decode" => ret = Ok(data)
    /\ op = "utf8_decode" => ret = Ok(data)

\* C2: encode and encode_to_slice return exactly encode_len(len) symbols,
\* encode_len being (n div 7) * 4 plus 0, 2, 3, 3, 4, 4, 5 for n mod 7 = 0..6;
\* the UTF-8 encode and encode_to_slice return 3 times as many bytes.
C2_LengthExact ==
    /\ encode_len(Len(data)) = (Len(data) \div 7) * 4 + <<0, 2, 3, 3, 4, 4, 5>>[(Len(data) % 7) + 1]
    /\ op = "encode" => Len(ret.val) = encode_len(Len(data))
    /\ op = "encode_to_slice" =>
         IF Len(buf) >= encode_len(Len(data))
           THEN ret.kind = "Ok" /\ Len(ret.val) = encode_len(Len(data))
           ELSE ret.kind = "Panic"
    /\ op = "utf8_encode" => Len(ret.val) = 3 * encode_len(Len(data))
    /\ op = "utf8_encode_to_slice" =>
         IF Len(buf) >= 3 * encode_len(Len(data))
           THEN ret.kind = "Ok" /\ Len(ret.val) = 3 * encode_len(Len(data))
           ELSE ret.kind = "Panic"

\* an encode_to_slice call into a buffer with room to spare returned the
\* symbols of a buffer of one group and a remainder
C2_Witness ==
    /\ op = "encode_to_slice"
    /\ ret.kind = "Ok"
    /\ Len(data) = 8
    /\ Len(buf) > Len(ret.val)

\* C3: for a byte length n, with the padding Some(PADDING_OFFSET + n mod 7) when
\* n mod 7 # 0 and None otherwise (which is the trailing padding of what encode
\* returned), decode_len(encode_len(n), padding) = n, in both forms.
C3_DecodeLenInverts ==
    op = "encode" =>
      \A k \in 0..MaxLen : \A checks \in BOOLEAN :
        LET n == Len(data) + 7 * k
            pad == IF n % 7 # 0 THEN Some(PADDING_OFFSET + (n % 7)) ELSE None
        IN  /\ pad = (IF ret.val = << >> THEN None ELSE padding(ret.val[Len(ret.val)]))
            /\ decode_len(encode_len(n), pad, checks) = [panic |-> FALSE, val |-> n]
            /\ utf8_decode_len(utf8_encode_len(n), pad, checks) = [panic |-> FALSE, val |-> n]

\* encode returned the symbols of 8 bytes, the last being the marker of a
\* remainder of 1
C3_Witness ==
    /\ op = "encode"
    /\ Len(data) = 8
    /\ ret.val[Len(ret.val)] = PADDING_OFFSET + 1
    /\ decode_len(Len(ret.val), padding(ret.val[Len(ret.val)]), TRUE).val = 8

\* C4: with r = len mod 7, if r = 0 no symbol encode returns is a padding
\* marker (the empty buffer gives the empty stream); if r is in 1..6 the last
\* symbol is PADDING_OFFSET + r and it is the only symbol on which padding
\* returns Some.
C4_TrailingMarker ==
    op = "encode" =>
      LET r == Len(data) % 7
          out == ret.val
      IN  /\ data = << >> => out = << >>
          /\ r = 0 => \A k \in 1..Len(out) : padding(out[k]) = None
          /\ r # 0 =>
               /\ out # << >>
               /\ out[Len(out)] = PADDING_OFFSET + r
               /\ padding(out[Len(out)]) = Some(PADDING_OFFSET + r)
               /\ \A k \in 1..(Len(out) - 1) : padding(out[k]) = None

\* encode returned the symbols of a buffer whose length is 6 mod 7 and whose
\* bytes are all 0xFF
C4_Witness ==
    /\ op = "encode"
    /\ data = <<255, 255, 255, 255, 255, 255>>
    /\ padding(stream[Len(stream)]) = Some(PADDING_OFFSET + 6)

\* C5: n zero bytes encode, with encode_to_slice, to encode_len(n) symbols, all
\* 0x4E00 except that the last is 0x3D00 + n mod 7 when n mod 7 # 0 (32 zero
\* bytes: 20 symbols, the last 0x3D04; 1,024,000 zero bytes: 585,144 symbols,
\* the marker being 0x3D05); the UTF-8 encode gives E4 B8 80 for each 0x4E00
\* and E3 B4 (0x80 + n mod 7) for the marker.
C5_ZeroVectors ==
    /\ (op = "encode_to_slice" /\ ret.kind = "Ok" /\ data = Repeat(0, Len(data))) =>
         ret.val = [k \in 1..encode_len(Len(data)) |->
                      IF k = encode_len(Len(data)) /\ Len(data) % 7 # 0
                        THEN 15616 + (Len(data) % 7)
                        ELSE 19968]
    /\ (op = "utf8_encode" /\ data = Repeat(0, Len(data))) =>
         ret.val = [j \in 1..(3 * encode_len(Len(data))) |->
                      IF j > 3 * (encode_len(Len(data)) - 1) /\ Len(data) % 7 # 0
                        THEN <<128 + (Len(data) % 7), 227, 180>>[(j % 3) + 1]
                        ELSE <<128, 228, 184>>[(j % 3) + 1]]
    /\ zeros_32.kind = "Ok"
    /\ zeros_32.val = [k \in 1..20 |-> IF k = 20 THEN 15620 ELSE 19968]
    /\ encode_len(1024000) = 585144
    /\ 1024000 % 7 = 5

\* encode_to_slice returned the symbols of 8 zero bytes
C5_Witness ==
    /\ op = "encode_to_slice"
    /\ ret.kind = "Ok"
    /\ data = <<0, 0, 0, 0, 0, 0, 0, 0>>
    /\ ret.val = <<19968, 19968, 19968, 19968, 19968, 15617>>

\* C6: Base16384Utf8::encode returns the concatenation of the 3-byte UTF-8
\* encodings [0xE0 | hi4, 0x80 | mid6, 0x80 | lo6] of the symbols
\* Base16384::encode returns; and if decoding either form succeeds, decoding
\* the other succeeds with the same bytes.
C6_Utf8Equivalence ==
    /\ op = "utf8_encode" =>
         \E syms \in {encode(data)} :
           /\ Len(ret.val) = 3 * Len(syms)
           /\ \A k \in 1..Len(syms) :
                /\ ret.val[3 * k - 2] = 224 + syms[k] \div 4096
                /\ ret.val[3 * k - 1] = 128 + ((syms[k] \div 64) % 64)
                /\ ret.val[3 * k] = 128 + (syms[k] % 64)
    /\ op = "utf8_decode" =>
         \A checks \in BOOLEAN :
           \E r \in {decode(encode(data), checks)} :
             (r.kind = "Ok" \/ ret.kind = "Ok") => ret = r

\* the UTF-8 form of 8 bytes was decoded successfully
C6_Witness ==
    /\ op = "utf8_decode"
    /\ ret.kind = "Ok"
    /\ Len(data) = 8
    /\ Len(text) = 18

\* C7: decode of any symbol stream returns Ok, Err(InvalidLength) or
\* Err(InvalidCharacter): no input makes the call abort.
C7_TypedErrorsOnly ==
    op = "decode" => ret.kind \in {"Ok", "InvalidLength", "InvalidCharacter"}

\* the number of symbols of the tail the stream's trailing padding marker
\* implies: 1, 2, 3, 3, 4, 4, 5 for the markers of 0..6, 0 without a marker
C8_Tail ==
    IF stream = << >> THEN 0
    ELSE IF stream[Len(stream)] \in PADDING_OFFSET..(PADDING_OFFSET + 6)
      THEN <<1, 2, 3, 3, 4, 4, 5>>[stream[Len(stream)] - PADDING_OFFSET + 1]
    ELSE 0

\* the stream holds its tail, and what is left without it is not a multiple of 4
C8_BadLength ==
    /\ Len(stream) >= C8_Tail
    /\ (Len(stream) - C8_Tail) % 4 # 0

\* C8, as stated: on a stream at least as long as its tail whose length without
\* the tail is not a multiple of 4, decode and decode_to_slice return
\* Err(InvalidLength), whatever the symbols are.
C8_InvalidLength_AsStated ==
    (C8_BadLength /\ op \in {"decode", "decode_to_slice"}) => ret = InvalidLength

\* C8, amended: on such a stream decode returns Err(InvalidLength), and
\* decode_to_slice returns Err(InvalidLength), leaving the buffer as it was,
\* provided the buffer holds at least decode_len(len, padding) bytes; on a
\* shorter buffer decode_to_slice panics before it checks the length.
C8_InvalidLength ==
    C8_BadLength =>
      /\ op = "decode" => ret = InvalidLength
      /\ op = "decode_to_slice" =>
           \E cap \in {decode_len(Len(stream), padding(stream[Len(stream)]), TRUE)} :
             /\ ~cap.panic
             /\ IF Len(buf) >= cap.val
                  THEN ret = InvalidLength /\ buf = FreshBuf(Len(buf))
                  ELSE ret = Panic

\* decode_to_slice, given a large enough buffer, rejected for its length a
\* stream that also holds an invalid symbol
C8_Witness ==
    /\ op = "decode_to_slice"
    /\ ret = InvalidLength
    /\ C8_BadLength
    /\ stream[1] = START - 1
    /\ Len(buf) > 0

\* the stream holds its tail, and what is left without it is a multiple of 4
C9_ValidLength ==
    /\ Len(stream) >= C8_Tail
    /\ (Len(stream) - C8_Tail) % 4 = 0

\* the positions (from 1) of the symbols, the trailing padding marker aside,
\* that lie outside the data-symbol range [START, START + 0x3FFF)
C9_Invalid ==
    {p \in 1..(Len(stream) - (IF C8_Tail > 0 THEN 1 ELSE 0)) :
       ~(stream[p] >= START /\ stream[p] < START + 16383)}

C10_Units == Len(text) \div 3

\* the code point the payload bits of unit k hold
C10_CodePoint ==
    [k \in 1..C10_Units |->
       (text[3 * k - 2] % 16) * 4096 + (text[3 * k - 1] % 64) * 64 + (text[3 * k] % 64)]

\* unit k is a lead byte 1110xxxx followed by two continuation bytes 10xxxxxx
C10_WellFormed ==
    [k \in 1..C10_Units |->
       /\ text[3 * k - 2] \div 16 = 14
       /\ text[3 * k - 1] \div 64 = 2
       /\ text[3 * k] \div 64 = 2]

\* the last unit is a padding marker
C10_HasMarker ==
    /\ C10_Units > 0
    /\ C10_WellFormed[C10_Units]
    /\ C10_CodePoint[C10_Units] \in PADDING_OFFSET..(PADDING_OFFSET + 6)

\* the number of units of the tail the trailing padding marker implies
C10_Tail ==
    IF C10_HasMarker
      THEN <<1, 2, 3, 3, 4, 4, 5>>[C10_CodePoint[C10_Units] - PADDING_OFFSET + 1]
      ELSE 0

\* the text is whole units, holds its tail, and is a multiple of 4 units without it
C10_ValidLength ==
    /\ Len(text) >= 3
    /\ Len(text) % 3 = 0
    /\ C10_Units >= C10_Tail
    /\ (C10_Units - C10_Tail) % 4 = 0

\* the units, the trailing padding marker aside, that are malformed or hold a
\* code point outside the data-symbol range
C10_Offending ==
    {k \in 1..(C10_Units - (IF C10_HasMarker THEN 1 ELSE 0)) :
       \/ ~C10_WellFormed[k]
       \/ ~(C10_CodePoint[k] >= START /\ C10_CodePoint[k] < START + 16383)}

\* C10: on a UTF-8 input of valid length holding, the trailing padding marker
\* aside, a malformed unit or one outside the data-symbol range,
\* Base16384Utf8::decode returns Err(InvalidCharacter{index}), index being the
\* byte offset in the input of the first such unit.
C10_Utf8InvalidCharacter ==
    (op = "utf8_decode" /\ C10_ValidLength /\ C10_Offending # {}) =>
      ret = InvalidCharacter(
              3 * ((CHOOSE k \in C10_Offending : \A j \in C10_Offending : k <= j) - 1))

\* C11, for Base16384Utf8::decode: the call returns Err(InvalidLength) on every
\* input whose byte length is not a multiple of 3, and on every input of
\* length a multiple of 3 whose byte count without the tail its trailing
\* padding marker implies is not a multiple of 12; the empty input decodes to
\* the empty byte sequence.
C11_Utf8InvalidLength ==
    op = "utf8_decode" =>
      /\ text = << >> => ret = Ok(<< >>)
      /\ Len(text) % 3 # 0 => ret = InvalidLength
      /\ (text # << >> /\ Len(text) % 3 = 0 /\ (Len(text) - 3 * C10_Tail) % 12 # 0) =>
           ret = InvalidLength

----------------------------------------------------------------------------
(* The *_to_slice calls of both codecs, each on its own input *)

InitSlices == Init \/ InitDecode \/ InitUtf8

NextSlices ==
    \/ EncodeToSlice
    \/ Utf8EncodeToSlice
    \/ DecodeToSlice
    \/ Utf8DecodeToSlice

SpecSlices == InitSlices /\ [][NextSlices]_vars

\* the trailing padding of the stream
C12_Padding == IF stream = << >> THEN None ELSE padding(stream[Len(stream)])

\* the trailing padding of the text (of whole units)
C12_Utf8Padding ==
    IF text = << >> THEN None ELSE utf8_padding(SubSeq(text, Len(text) - 2, Len(text)))

\* C12: an encode_to_slice or decode_to_slice call of either codec, on an input
\* for which encode_len (resp. decode_len) is defined, aborts without having
\* written to the buffer if the buffer is shorter than that length; otherwise
\* it does not abort, the buffer keeps its length, and what is returned is a
\* prefix of the buffer.
C12_Capacity ==
    /\ op = "encode_to_slice" =>
         IF Len(buf) < encode_len(Len(data))
           THEN ret.kind = "Panic" /\ buf = Repeat(0, Len(buf))
           ELSE ret.kind = "Ok" /\ ret.val = SubSeq(buf, 1, Len(ret.val))
    /\ op = "utf8_encode_to_slice" =>
         IF Len(buf) < utf8_encode_len(Len(data))
           THEN ret.kind = "Panic" /\ buf \in StrBufs(Len(buf))
           ELSE ret.kind = "Ok" /\ ret.val = SubSeq(buf, 1, Len(ret.val))
    /\ op = "decode_to_slice" =>
         \A checks \in BOOLEAN :
           \E cap \in {decode_len(Len(stream), C12_Padding, checks)} :
             ~cap.panic =>
               IF Len(buf) < cap.val
                 THEN ret.kind = "Panic" /\ buf = FreshBuf(Len(buf))
                 ELSE /\ ret.kind # "Panic"
                      /\ ret.kind = "Ok" => ret.val = SubSeq(buf, 1, Len(ret.val))
    /\ (op = "utf8_decode_to_slice" /\ Len(text) % 3 = 0) =>
         \A checks \in BOOLEAN :
           \E cap \in {utf8_decode_len(Len(text), C12_Utf8Padding, checks)} :
             ~cap.panic =>
               IF Len(buf) < cap.val
                 THEN ret.kind = "Panic" /\ buf = FreshBuf(Len(buf))
                 ELSE /\ ret.kind # "Panic"
                      /\ ret.kind = "Ok" => ret.val = SubSeq(buf, 1, Len(ret.val))

\* decode_to_slice aborted on a buffer one byte short of the 7 bytes a group
\* of 4 valid symbols decodes to
C12_Witness ==
    /\ op = "decode_to_slice"
    /\ stream = <<START, START, START, START>>
    /\ Len(buf) = 6
    /\ ret.kind = "Panic"

\* C13: every symbol encode returns, a final padding marker aside, is a data
\* symbol: it lies in [START, START + 0x3FFF) = [0x4E00, 0x8DFF), the range
\* is_valid_char accepts.
C13_WellFormedStream ==
    op = "encode" =>
      \A k \in 1..(Len(ret.val) - (IF Len(data) % 7 # 0 THEN 1 ELSE 0)) :
        /\ ret.val[k] >= 19968
        /\ ret.val[k] < 36351
        /\ is_valid_char(ret.val[k])

\* bit n (from 0, most significant first) of the stream of w-bit units
C14_Bit(units, w, n) == (units[(n \div w) + 1] \div (2 ^ (w - 1 - (n % w)))) % 2

RECURSIVE C14_Field(_, _, _, _)
\* the value of the `width` bits from bit `first` on of the stream of w-bit units
C14_Field(units, w, first, width) ==
    IF width = 0 THEN 0
    ELSE 2 * C14_Field(units, w, first, width - 1) + C14_Bit(units, w, first + width - 1)

\* C14: the symbols encode emits for a 7-byte group are START plus the four
\* 14-bit fields, most significant first, of the group's 56 bits; on 4 symbols
\* it accepts, decode_chunk returns the seven 8-bit fields of the 56 bits the
\* symbols' (symbol - START) make; the vector of tests/magic.rs decodes to the
\* bytes 0..=255 and b"12345678" encodes to the documented 6 symbols.
C14_BlockTransform ==
    /\ (op = "encode" /\ Len(data) >= 7) =>
         \A i \in 0..3 : ret.val[i + 1] = START + C14_Field(data, 8, 14 * i, 14)
    /\ (op = "decode" /\ Len(data) >= 7
          /\ \A k \in 1..4 : is_valid_char(stream[k])) =>
         \E r \in {decode_chunk(SubSeq(stream, 1, 4))} :
           /\ r.kind = "Ok"
           /\ \A k \in 1..7 :
                r.val[k] = C14_Field([j \in 1..4 |-> stream[j] - START], 14, 8 * (k - 1), 8)
           /\ ret.kind = "Ok" => SubSeq(ret.val, 1, 7) = r.val
    /\ Len(MAGIC) = 148
    /\ padding(MAGIC[148]) = Some(PADDING_OFFSET + 4)
    /\ decode_len(148, padding(MAGIC[148]), TRUE) = [panic |-> FALSE, val |-> 256]
    /\ \A k \in 1..36 : magic_1_chunks[k] = Ok([j \in 1..7 |-> 7 * (k - 1) + j - 1])
    /\ magic_1_remainder = Ok(<<252, 253, 254, 255>>)
    /\ encode_12345678 = <<23116, 28979, 24276, 33847, 23552, 15617>>

\* a group of mixed bytes was encoded and its symbols decoded
C14_Witness ==
    /\ op = "decode"
    /\ ret.kind = "Ok"
    /\ Len(data) = 7
    /\ data[1] = 165
    /\ data[4] = 255
    /\ data[7] = 0

\* the leftover bytes of data: its last len mod 7 bytes
C15_Remainder == SubSeq(data, Len(data) - (Len(data) % 7) + 1, Len(data))

\* the block transform of the zero-padded group of the leftover bytes
C15_Group == encode_chunk([k \in 1..7 |-> IF k <= Len(C15_Remainder) THEN C15_Remainder[k] ELSE 0])

\* the symbols of the tail that encode returned, the marker aside
C15_Kept == SubSeq(ret.val, Len(ret.val) - (Len(C15_Remainder) \div 2) - 1, Len(ret.val) - 1)

\* C15: for r in 1..6 leftover bytes, the symbols of the zero-padded group's
\* block transform after the first floor(r/2)+1 are all START; encode keeps the
\* first floor(r/2)+1; padding them with START again gives the same group, and
\* decode_remainder returns from it the r original bytes; floor(r/2)+1 is the
\* least number of 14-bit symbols that hold 8*r bits.
C15_RemainderLossless ==
    (op = "encode" /\ Len(data) % 7 # 0) =>
      \E r \in {Len(data) % 7} :
        /\ \A k \in (r \div 2 + 2)..4 : C15_Group[k] = START
        /\ C15_Kept = SubSeq(C15_Group, 1, r \div 2 + 1)
        /\ [k \in 1..4 |-> IF k <= Len(C15_Kept) THEN C15_Kept[k] ELSE START] = C15_Group
        /\ decode_remainder(C15_Kept, PADDING_OFFSET + r) = Ok(C15_Remainder)
        /\ 14 * (r \div 2 + 1) >= 8 * r
        /\ 14 * (r \div 2) < 8 * r

----------------------------------------------------------------------------
(* The 16-bit codec on both kinds of input: a byte buffer to encode (and the *)
(* stream encode returns, to decode), or an arbitrary stream to decode        *)

InitCodec == Init \/ InitDecode

NextCodec ==
    \/ Encode
    \/ Decode
    \/ DecodeToSlice

SpecCodec == InitCodec /\ [][NextCodec]_vars

\* C16, as stated: when encode has emitted a padding marker, and when decode or
\* decode_to_slice has found a padding marker at the end of its input, the
\* remainder byte count r = marker - PADDING_OFFSET is in 1..6.
C16_RemainderBound_AsStated ==
    (op \in {"encode", "decode", "decode_to_slice"} /\ C12_Padding # None) =>
      (C12_Padding[1] - PADDING_OFFSET) \in 1..6

\* C16, amended: when encode has emitted a padding marker, r = marker -
\* PADDING_OFFSET is the number of leftover bytes and is in 1..6; when decode or
\* decode_to_slice has found a padding marker at the end of its input, r is in
\* 0..6 (the marker PADDING_OFFSET + 0 is accepted), and a successful call
\* returns r bytes after the 7 bytes of each group of 4 symbols.
C16_RemainderBound ==
    /\ op = "encode" =>
         IF Len(data) % 7 = 0 THEN C12_Padding = None
         ELSE /\ C12_Padding = Some(PADDING_OFFSET + (Len(data) % 7))
              /\ (C12_Padding[1] - PADDING_OFFSET) \in 1..6
    /\ (op \in {"decode", "decode_to_slice"} /\ C12_Padding # None) =>
         /\ (C12_Padding[1] - PADDING_OFFSET) \in 0..6
         /\ ret.kind = "Ok" =>
              Len(ret.val) = 7 * ((Len(stream) - C8_Tail) \div 4) + (C12_Padding[1] - PADDING_OFFSET)

\* decode accepted a stream that ends with the marker of a remainder of 0 bytes
C16_Witness ==
    /\ op = "decode"
    /\ stream = <<START, START, START, START, PADDING_OFFSET>>
    /\ ret = Ok(<<0, 0, 0, 0, 0, 0, 0>>)

\* b[i] is a continuation byte 10xxxxxx within lo..hi
C17_Cont(b, i, lo, hi) == i <= Len(b) /\ b[i] >= lo /\ b[i] <= hi

RECURSIVE C17_WellFormed(_, _)
\* the bytes of b from position i on are well-formed UTF-8
C17_WellFormed(b, i) ==
    IF i > Len(b) THEN TRUE
    ELSE IF b[i] < 128 THEN C17_WellFormed(b, i + 1)
    ELSE IF b[i] \in 194..223
      THEN C17_Cont(b, i + 1, 128, 191) /\ C17_WellFormed(b, i + 2)
    ELSE IF b[i] \in 224..239
      THEN /\ C17_Cont(b, i + 1, IF b[i] = 224 THEN 160 ELSE 128, IF b[i] = 237 THEN 159 ELSE 191)
           /\ C17_Cont(b, i + 2, 128, 191)
           /\ C17_WellFormed(b, i + 3)
    ELSE IF b[i] \in 240..244
      THEN /\ C17_Cont(b, i + 1, IF b[i] = 240 THEN 144 ELSE 128, IF b[i] = 244 THEN 143 ELSE 191)
           /\ C17_Cont(b, i + 2, 128, 191)
           /\ C17_Cont(b, i + 3, 128, 191)
           /\ C17_WellFormed(b, i + 4)
    ELSE FALSE

\* C17: after Base16384Utf8::encode_to_slice on a buffer of well-formed UTF-8
\* that is long enough, the whole buffer is still well-formed UTF-8, and the
\* returned prefix is made of 3-byte sequences 1110xxxx 10xxxxxx 10xxxxxx of
\* code points that are data symbols or padding markers.
C17_StrBufferValid ==
    (op = "utf8_encode_to_slice" /\ ret.kind = "Ok") =>
      /\ C17_WellFormed(buf, 1)
      /\ Len(ret.val) % 3 = 0
      /\ \A k \in 1..(Len(ret.val) \div 3) :
           /\ ret.val[3 * k - 2] \div 16 = 14
           /\ ret.val[3 * k - 1] \div 64 = 2
           /\ ret.val[3 * k] \div 64 = 2
           /\ \E c \in {(ret.val[3 * k - 2] % 16) * 4096 + (ret.val[3 * k - 1] % 64) * 64
                          + (ret.val[3 * k] % 64)} :
                \/ c >= START /\ c < START + 16383
                \/ c >= PADDING_OFFSET /\ c < PADDING_OFFSET + 7

====
